---------------------------- MODULE Spec2Model ----------------------------
(***************************************************************************)
(* Model of mortgage_parser.py (MortgageStatementParser): the field        *)
(* extractors, the record assembler _extract_mortgage_fields, the          *)
(* responses they read, the file entry point parse_mortgage_statement and  *)
(* the formatter format_output.                                            *)
(*                                                                         *)
(* Python values are tagged records:                                       *)
(*   [k |-> "missing"]   the key is not in the dict (dict.get's default)   *)
(*   [k |-> "none"]      None                                              *)
(*   [k |-> "str", s]    a str, s the sequence of its characters           *)
(*   [k |-> "num", neg, int, frac]  a number sign/integer part/fraction    *)
(*                       digits without trailing zeros (3.75 is            *)
(*                       int 3, frac <<7,5>>)                              *)
(*   [k |-> "list", v]   a list                                            *)
(*   [k |-> "dict", ...] a dict, one field per key, each possibly missing  *)
(*   [k |-> "raised", exc]  the call raised exc instead of returning       *)
(***************************************************************************)
EXTENDS Integers, Sequences, FiniteSets, TLC

VARIABLES
    response,   \* the dict handed to the parser (veryfi_response)
    pc,         \* the method that ran last
    result,     \* what that method returned, or the exception it raised
    r0,         \* the response of the first _extract_mortgage_fields call
    first,      \* what that first call returned
    calls,      \* _extract_mortgage_fields calls so far: on r0, on others
    output,     \* what format_output returned for the record in result
    request,    \* the file handed to parse_mortgage_statement
    submitted   \* the process_document calls the service has received

vars == <<response, pc, result, r0, first, calls, output, request, submitted>>

-----------------------------------------------------------------------------
(* Python values *)

Missing == [k |-> "missing"]
None == [k |-> "none"]
Str(s) == [k |-> "str", s |-> s]
Num(neg, int, frac) == [k |-> "num", neg |-> neg, int |-> int, frac |-> frac]
IntNum(n) == IF n < 0 THEN Num(TRUE, 0 - n, <<>>) ELSE Num(FALSE, n, <<>>)
List(v) == [k |-> "list", v |-> v]
Raised(exc) == [k |-> "raised", exc |-> exc]
EmptyStr == Str(<<>>)

\* dict.get(key, default) on a dict modelled as a record of its keys
Get(d, key, default) == IF d[key] = Missing THEN default ELSE d[key]

\* a dict is falsy exactly when it has no key
DictKeys(d) == {f \in DOMAIN d \ {"k"} : d[f] # Missing}

\* bool(v)
Truthy(v) ==
    CASE v.k = "none" -> FALSE
      [] v.k = "missing" -> FALSE
      [] v.k = "str" -> Len(v.s) > 0
      [] v.k = "num" -> v.int # 0 \/ v.frac # <<>>
      [] v.k = "list" -> Len(v.v) > 0
      [] v.k = "dict" -> DictKeys(v) # {}
      [] OTHER -> TRUE

\* v > 0 for a number
Positive(v) == ~v.neg /\ (v.int # 0 \/ v.frac # <<>>)

-----------------------------------------------------------------------------
(* str: characters, lower(), strip(), substring test *)

UpperCase == <<"A","B","C","D","E","F","G","H","I","J","K","L","M",
               "N","O","P","Q","R","S","T","U","V","W","X","Y","Z">>
LowerCase == <<"a","b","c","d","e","f","g","h","i","j","k","l","m",
               "n","o","p","q","r","s","t","u","v","w","x","y","z">>
Digits == <<"0","1","2","3","4","5","6","7","8","9">>

LowerChar(c) ==
    IF \E i \in 1..26 : UpperCase[i] = c
    THEN LowerCase[CHOOSE i \in 1..26 : UpperCase[i] = c]
    ELSE c

\* str.lower()
Lower(s) == [i \in 1..Len(s) |-> LowerChar(s[i])]

IsDigit(c) == \E i \in 1..10 : Digits[i] = c
IsSpace(c) == c \in {" ", "\n", "\t"}
IsColonSpace(c) == c = ":" \/ IsSpace(c)
NotNewline(c) == c # "\n"
IsDateSep(c) == c \in {"-", "/"}

DigitVal(c) == (CHOOSE i \in 1..10 : Digits[i] = c) - 1

\* the word w stands in s at position p
At(s, p, w) ==
    /\ p >= 1
    /\ p + Len(w) - 1 <= Len(s)
    /\ \A i \in 1..Len(w) : s[p + i - 1] = w[i]

\* w in s
Contains(s, w) == \E p \in 1..(Len(s) + 1) : At(s, p, w)

\* end of the longest run of Class characters from p: the first position
\* at or after p that holds no Class character (Len(s) + 1 at the end)
RunEnd(s, p, Class(_)) ==
    CHOOSE q \in p..(Len(s) + 1) :
        /\ q = Len(s) + 1 \/ ~Class(s[q])
        /\ \A j \in p..(q - 1) : Class(s[j])

\* str.strip()
Strip(s) ==
    IF \A i \in 1..Len(s) : IsSpace(s[i]) THEN <<>>
    ELSE LET a == CHOOSE i \in 1..Len(s) :
                      ~IsSpace(s[i]) /\ \A j \in 1..(i - 1) : IsSpace(s[j])
             b == CHOOSE i \in 1..Len(s) :
                      ~IsSpace(s[i]) /\ \A j \in (i + 1)..Len(s) : IsSpace(s[j])
         IN SubSeq(s, a, b)

\* str.replace(c, '') for a single character c
RemoveChar(s, c) == SelectSeq(s, LAMBDA x : x # c)

RECURSIVE Concat(_)
\* ''.join(parts)
Concat(parts) ==
    IF parts = <<>> THEN <<>> ELSE Head(parts) \o Concat(Tail(parts))

RECURSIVE DigitsToNat(_)
DigitsToNat(ds) ==
    IF ds = <<>> THEN 0
    ELSE 10 * DigitsToNat(SubSeq(ds, 1, Len(ds) - 1)) + DigitVal(ds[Len(ds)])

RECURSIVE NatToDigits(_)
NatToDigits(n) ==
    IF n < 10 THEN <<Digits[n + 1]>>
    ELSE NatToDigits(n \div 10) \o <<Digits[(n % 10) + 1]>>

RECURSIVE DropTrailingZeros(_)
DropTrailingZeros(ds) ==
    IF ds # <<>> /\ ds[Len(ds)] = "0"
    THEN DropTrailingZeros(SubSeq(ds, 1, Len(ds) - 1))
    ELSE ds

-----------------------------------------------------------------------------
(* Words the patterns and the keyword tests use *)

W_apr == <<"a","p","r">>
W_annual_percentage_rate ==
    <<"a","n","n","u","a","l"," ","p","e","r","c","e","n","t","a","g","e",
      " ","r","a","t","e">>
W_interest_rate == <<"i","n","t","e","r","e","s","t"," ","r","a","t","e">>
W_original_loan == <<"o","r","i","g","i","n","a","l"," ","l","o","a","n">>
W_loan_amount == <<"l","o","a","n"," ","a","m","o","u","n","t">>
W_principal_balance ==
    <<"p","r","i","n","c","i","p","a","l"," ","b","a","l","a","n","c","e">>
W_outstanding_balance ==
    <<"o","u","t","s","t","a","n","d","i","n","g"," ","b","a","l","a","n","c","e">>
W_current_balance ==
    <<"c","u","r","r","e","n","t"," ","b","a","l","a","n","c","e">>
W_remaining_balance ==
    <<"r","e","m","a","i","n","i","n","g"," ","b","a","l","a","n","c","e">>
W_year == <<"y","e","a","r">>
W_month == <<"m","o","n","t","h">>
W_fixed == <<"f","i","x","e","d">>
W_term == <<"t","e","r","m">>
W_loan == <<"l","o","a","n">>
W_loan_term == <<"l","o","a","n"," ","t","e","r","m">>
W_property == <<"p","r","o","p","e","r","t","y">>
W_address == <<"a","d","d","r","e","s","s">>
W_payment_date == <<"p","a","y","m","e","n","t"," ","d","a","t","e">>
W_loan_date == <<"l","o","a","n"," ","d","a","t","e">>
W_origination_date ==
    <<"o","r","i","g","i","n","a","t","i","o","n"," ","d","a","t","e">>
W_None == <<"N","o","n","e">>

-----------------------------------------------------------------------------
(* str() and float() *)

\* str(v) for the values a response holds.  A number prints as its digits
\* (Python prints a float with at least one fraction digit, 4.0; float()
\* reads both spellings alike).
StrOf(v) ==
    CASE v.k = "str" -> v.s
      [] v.k = "none" -> W_None
      [] v.k = "num" ->
            (IF v.neg THEN <<"-">> ELSE <<>>) \o NatToDigits(v.int)
                \o (IF v.frac = <<>> THEN <<>> ELSE <<".">> \o v.frac)
      [] OTHER -> <<"?">>

\* the number a digit string with an optional fraction denotes
MkNum(neg, intDigits, fracDigits) ==
    LET i == DigitsToNat(intDigits)
        f == DropTrailingZeros(fracDigits)
    IN Num(neg /\ (i # 0 \/ f # <<>>), i, f)

\* float(s) for a str s: surrounding whitespace is ignored, then an optional
\* sign, then digits with an optional fraction; anything else is a
\* ValueError.  (Exponents, underscores, inf and nan, which float() also
\* reads, are outside the alphabet of the modelled inputs.)
PyFloat(s) ==
    LET t == Strip(s)
        signed == t # <<>> /\ t[1] \in {"-", "+"}
        body == IF signed THEN Tail(t) ELSE t
        d == RunEnd(body, 1, IsDigit)
        frac == SubSeq(body, d + 1, Len(body))
    IN IF body = <<>> THEN Raised("ValueError")
       ELSE IF d > Len(body)
       THEN MkNum(signed /\ t[1] = "-", body, <<>>)
       ELSE IF /\ body[d] = "."
               /\ \A i \in 1..Len(frac) : IsDigit(frac[i])
               /\ (d > 1 \/ frac # <<>>)
       THEN MkNum(signed /\ t[1] = "-", SubSeq(body, 1, d - 1), frac)
       ELSE Raised("ValueError")

-----------------------------------------------------------------------------
(* re.search: the leftmost position at which a pattern matches *)

NoMatch == [k |-> "nomatch"]

\* the least position of s (or of its end) that satisfies M, 0 if none does
FirstPos(s, M(_)) ==
    LET ms == {i \in 1..(Len(s) + 1) : M(i)}
    IN IF ms = {} THEN 0 ELSE CHOOSE i \in ms : \A j \in ms : i <= j

\* <label>[:\s]+(\d+\.?\d*)\s*%?   matched at position i
NumberAt(t, label, i) ==
    LET a == i + Len(label)
        e == RunEnd(t, a, IsColonSpace)
    IN At(t, i, label) /\ e > a /\ e <= Len(t) /\ IsDigit(t[e])

\* group(1) of that match: digits, an optional point, more digits
NumberCapture(t, label, i) ==
    LET e == RunEnd(t, i + Len(label), IsColonSpace)
        d1 == RunEnd(t, e, IsDigit)
        d2 == IF d1 <= Len(t) /\ t[d1] = "." THEN d1 + 1 ELSE d1
        d3 == RunEnd(t, d2, IsDigit)
    IN SubSeq(t, e, d3 - 1)

\* re.search(<label>[:\s]+(\d+\.?\d*)\s*%?, t): group(1), or NoMatch
SearchNumber(t, label) ==
    LET i == FirstPos(t, LAMBDA p : NumberAt(t, label, p))
    IN IF i = 0 THEN NoMatch ELSE Str(NumberCapture(t, label, i))

-----------------------------------------------------------------------------
(* The extractors *)

\* index of the first element of seq that satisfies P, 0 if none does: the
\* element at which "for x in seq: if P(x): return ..." returns
FirstIdx(seq, P(_)) ==
    LET ms == {i \in 1..Len(seq) : P(seq[i])}
    IN IF ms = {} THEN 0 ELSE CHOOSE i \in ms : \A j \in ms : i <= j

\* str(d.get(key, '')).lower()
LowerOf(d, key) == Lower(StrOf(Get(d, key, EmptyStr)))

\* the loan-amount test, passed only by an item that has a total
IsLoanAmountItemWithTotal(item) ==
    LET description == LowerOf(item, "description")
    IN /\ Get(item, "total", None) # None
       /\ Contains(description, W_original_loan)
              \/ Contains(description, W_loan_amount)

\* the loan-amount test on a line item's description
IsLoanAmountItem(item) ==
    LET description == LowerOf(item, "description")
    IN Contains(description, W_original_loan)
           \/ Contains(description, W_loan_amount)

\* the loan-amount test on a custom field's name
IsLoanAmountField(field) == Contains(LowerOf(field, "name"), W_loan_amount)

\* the custom-field half of _extract_loan_amount
LoanAmountFromFields(response_) ==
    LET custom_fields == Get(response_, "custom_fields", List(<<>>))
        j == FirstIdx(custom_fields.v, IsLoanAmountField)
    IN IF custom_fields.k # "list" THEN Raised("TypeError")
       ELSE IF j # 0 THEN Get(custom_fields.v[j], "value", None)
       ELSE None

\* _extract_loan_amount with the two loops in the other order
ExtractLoanAmountFieldsFirst(response_) ==
    LET line_items == Get(response_, "line_items", List(<<>>))
        i == FirstIdx(line_items.v, IsLoanAmountItem)
    IN IF LoanAmountFromFields(response_) # None
       THEN LoanAmountFromFields(response_)
       ELSE IF line_items.k # "list" THEN Raised("TypeError")
       ELSE IF i # 0 THEN Get(line_items.v[i], "total", None)
       ELSE None

\* _extract_loan_amount(response)
ExtractLoanAmount(response_) ==
    LET line_items == Get(response_, "line_items", List(<<>>))
        i == FirstIdx(line_items.v, IsLoanAmountItem)
    IN IF line_items.k # "list" THEN Raised("TypeError")
       ELSE IF i # 0 THEN Get(line_items.v[i], "total", None)
       ELSE LoanAmountFromFields(response_)

BalanceTerms ==
    <<W_principal_balance, W_outstanding_balance,
      W_current_balance, W_remaining_balance>>

\* the balance test on a line item's description
IsBalanceItem(item) ==
    LET description == LowerOf(item, "description")
    IN \E n \in 1..Len(BalanceTerms) : Contains(description, BalanceTerms[n])

\* the fallback with the test "if total is not None and total >= 0"
BalanceFromTotalOrZero(response_) ==
    LET total == Get(response_, "total", None)
    IN IF total.k # "num" THEN None
       ELSE IF ~total.neg THEN total
       ELSE None

\* the fallback of _extract_outstanding_balance: "if total and total > 0"
BalanceFromTotal(response_) ==
    LET total == Get(response_, "total", None)
    IN IF ~Truthy(total) THEN None
       ELSE IF total.k # "num" THEN Raised("TypeError")
       ELSE IF Positive(total) THEN total
       ELSE None

\* _extract_outstanding_balance(response)
ExtractOutstandingBalance(response_) ==
    LET line_items == Get(response_, "line_items", List(<<>>))
        i == FirstIdx(line_items.v, IsBalanceItem)
    IN IF line_items.k # "list" THEN Raised("TypeError")
       ELSE IF i # 0 THEN Get(line_items.v[i], "total", None)
       ELSE BalanceFromTotal(response_)

\* response.get('ocr_text', '').lower(): a value that is no str has no lower()
LowerText(response_) ==
    LET text == Get(response_, "ocr_text", EmptyStr)
    IN IF text.k = "str" THEN Str(Lower(text.s)) ELSE Raised("AttributeError")

\* apr_patterns, in the order of the list
AprPatterns == <<W_apr, W_annual_percentage_rate, W_interest_rate>>

\* the pattern loop returning the match that stands first in the text,
\* whichever pattern found it
AprFromTextLeftmost(text) ==
    LET found == {n \in 1..3 : SearchNumber(text, AprPatterns[n]) # NoMatch}
        pos(n) == FirstPos(text, LAMBDA p : NumberAt(text, AprPatterns[n], p))
        n == CHOOSE x \in found : \A y \in found : pos(x) <= pos(y)
    IN IF found = {} THEN NoMatch
       ELSE PyFloat(SearchNumber(text, AprPatterns[n]).s)

\* the pattern loop of _extract_apr: float(group(1)) of the first pattern,
\* in list order, that re.search finds in text; NoMatch if none is found
AprFromText(text) ==
    LET n == FirstIdx(AprPatterns, LAMBDA w : SearchNumber(text, w) # NoMatch)
    IN IF n = 0 THEN NoMatch ELSE PyFloat(SearchNumber(text, AprPatterns[n]).s)

\* the name test of the custom-field loop of _extract_apr
IsAprField(field) ==
    LET field_name == LowerOf(field, "name")
    IN Contains(field_name, W_apr) \/ Contains(field_name, W_interest_rate)

\* one turn of the custom-field loop: the float it returns, or NoMatch when
\* the loop goes on to the next field (value falsy, or ValueError caught)
AprFromField(field) ==
    LET value == Get(field, "value", None)
        f == PyFloat(RemoveChar(StrOf(value), "%"))
    IN IF IsAprField(field) /\ Truthy(value) /\ f.k = "num" THEN f ELSE NoMatch

\* the custom-field loop of _extract_apr
AprFromFields(response_) ==
    LET custom_fields == Get(response_, "custom_fields", List(<<>>))
        j == FirstIdx(custom_fields.v, LAMBDA fld : AprFromField(fld) # NoMatch)
    IN IF custom_fields.k # "list" THEN Raised("TypeError")
       ELSE IF j # 0 THEN AprFromField(custom_fields.v[j])
       ELSE None

\* _extract_apr(response)
ExtractApr(response_) ==
    LET text == LowerText(response_)
    IN IF text.k = "raised" THEN text
       ELSE IF AprFromText(text.s) # NoMatch THEN AprFromText(text.s)
       ELSE AprFromFields(response_)

\* the end (exclusive) of "\s*(?:w1|w2|...)?" from position a: the whitespace
\* run, and the first word of suffixes that stands after it, if one does
SuffixEnd(t, a, suffixes) ==
    LET w == RunEnd(t, a, IsSpace)
        n == FirstIdx(suffixes, LAMBDA x : At(t, w, x))
    IN IF n = 0 THEN w ELSE w + Len(suffixes[n])

\* (\d+)\s*<unit>\s*(?:<suffixes>)?   matched at position i
UnitAt(t, unit, i) ==
    /\ i <= Len(t)
    /\ IsDigit(t[i])
    /\ At(t, RunEnd(t, RunEnd(t, i, IsDigit), IsSpace), unit)

\* group(0) of that match
UnitMatch(t, unit, suffixes, i) ==
    LET u == RunEnd(t, RunEnd(t, i, IsDigit), IsSpace)
    IN SubSeq(t, i, SuffixEnd(t, u + Len(unit), suffixes) - 1)

\* re.search((\d+)\s*<unit>\s*(?:<suffixes>)?, t): group(0), or NoMatch
SearchUnit(t, unit, suffixes) ==
    LET i == FirstPos(t, LAMBDA p : UnitAt(t, unit, p))
    IN IF i = 0 THEN NoMatch ELSE Str(UnitMatch(t, unit, suffixes, i))

\* the end (exclusive) of "\d+\s*(?:year|month)s?" from position e, 0 if it
\* does not match there
TermTokenEnd(t, e) ==
    LET u == RunEnd(t, RunEnd(t, e, IsDigit), IsSpace)
        v == IF At(t, u, W_year) THEN u + Len(W_year)
             ELSE IF At(t, u, W_month) THEN u + Len(W_month)
             ELSE 0
    IN IF e > Len(t) \/ ~IsDigit(t[e]) \/ v = 0 THEN 0
       ELSE IF At(t, v, <<"s">>) THEN v + 1
       ELSE v

\* loan term[:\s]+(\d+\s*(?:year|month)s?)   matched at position i
LoanTermAt(t, i) ==
    LET a == i + Len(W_loan_term)
        e == RunEnd(t, a, IsColonSpace)
    IN At(t, i, W_loan_term) /\ e > a /\ TermTokenEnd(t, e) # 0

\* re.search(loan term[:\s]+(\d+\s*(?:year|month)s?), t): group(0), or NoMatch
SearchLoanTerm(t) ==
    LET i == FirstPos(t, LAMBDA p : LoanTermAt(t, p))
        e == RunEnd(t, i + Len(W_loan_term), IsColonSpace)
    IN IF i = 0 THEN NoMatch ELSE Str(SubSeq(t, i, TermTokenEnd(t, e) - 1))

\* term_patterns with the month pattern before the year pattern
TermSearchesMonthFirst(text) ==
    <<SearchUnit(text, W_month, <<W_term, W_loan>>),
      SearchUnit(text, W_year, <<W_fixed, W_term, W_loan>>),
      SearchLoanTerm(text)>>

\* term_patterns with the "loan term" pattern at the head of the list
TermSearchesLoanTermFirst(text) ==
    <<SearchLoanTerm(text),
      SearchUnit(text, W_year, <<W_fixed, W_term, W_loan>>),
      SearchUnit(text, W_month, <<W_term, W_loan>>)>>

\* term_patterns, in the order of the list: re.search of each on text
TermSearches(text) ==
    <<SearchUnit(text, W_year, <<W_fixed, W_term, W_loan>>),
      SearchUnit(text, W_month, <<W_term, W_loan>>),
      SearchLoanTerm(text)>>

\* _extract_loan_terms(response)
ExtractLoanTerms(response_) ==
    LET text == LowerText(response_)
        found == TermSearches(text.s)
        n == FirstIdx(found, LAMBDA m : m # NoMatch)
    IN IF text.k = "raised" THEN text
       ELSE IF n = 0 THEN None
       ELSE Str(Strip(found[n].s))

\* ([^\n]+(?:\n[^\n]+)?) from position c, which holds no newline: the rest of
\* the line and, when the next line is not empty, that line too
LinesFrom(t, c) ==
    LET le == RunEnd(t, c, NotNewline)
    IN IF le + 1 <= Len(t) /\ t[le + 1] # "\n"
       THEN SubSeq(t, c, RunEnd(t, le + 1, NotNewline) - 1)
       ELSE SubSeq(t, c, le - 1)

\* [:\s]+([^\n]+(?:\n[^\n]+)?) from position a: group(1), or NoMatch.  The
\* separator run is greedy; when it reaches the end of the text it gives
\* back characters until the capture has one that is no newline.
SeparatorThenLines(t, a) ==
    LET e == RunEnd(t, a, IsColonSpace)
        back == {j \in (a + 1)..Len(t) : t[j] # "\n"}
    IN IF e = a THEN NoMatch
       ELSE IF e <= Len(t) THEN Str(LinesFrom(t, e))
       ELSE IF back = {} THEN NoMatch
       ELSE Str(LinesFrom(t, CHOOSE j \in back : \A x \in back : x <= j))

\* property(?:\s+address)?[:\s]+([^\n]+(?:\n[^\n]+)?) at position i:
\* group(1), or NoMatch.  The optional group is tried first and dropped if
\* the rest does not match after it.
PropertyAt(t, i) ==
    LET p == i + Len(W_property)
        w == RunEnd(t, p, IsSpace)
        withAddress == IF w > p /\ At(t, w, W_address)
                       THEN SeparatorThenLines(t, w + Len(W_address))
                       ELSE NoMatch
    IN IF ~At(t, i, W_property) THEN NoMatch
       ELSE IF withAddress # NoMatch THEN withAddress
       ELSE SeparatorThenLines(t, p)

\* re.search(address_pattern, t): group(1), or NoMatch
SearchProperty(t) ==
    LET i == FirstPos(t, LAMBDA p : PropertyAt(t, p) # NoMatch)
    IN IF i = 0 THEN NoMatch ELSE PropertyAt(t, i)

\* the vendor and bill_to steps of _extract_property_address: the address of
\* the block when the block and the address are truthy, else NoMatch
BlockAddress(response_, key) ==
    LET block == Get(response_, key, [k |-> "dict", name |-> Missing,
                                       address |-> Missing])
        address == IF block.k = "dict" THEN Get(block, "address", None)
                   ELSE Raised("AttributeError")
    IN IF ~Truthy(block) THEN NoMatch
       ELSE IF address.k = "raised" THEN address
       ELSE IF Truthy(address) THEN address
       ELSE NoMatch

\* the text step of _extract_property_address
AddressFromText(response_) ==
    LET text == LowerText(response_)
        m == SearchProperty(text.s)
    IN IF text.k = "raised" THEN text
       ELSE IF m # NoMatch THEN Str(Strip(m.s))
       ELSE None

\* _extract_property_address(response)
ExtractPropertyAddress(response_) ==
    IF BlockAddress(response_, "vendor") # NoMatch
    THEN BlockAddress(response_, "vendor")
    ELSE IF BlockAddress(response_, "bill_to") # NoMatch
    THEN BlockAddress(response_, "bill_to")
    ELSE AddressFromText(response_)

\* the shorter of n and 4 digits: what the greedy \d{2,4} takes of a run
UpTo4(n) == IF n > 4 THEN 4 ELSE n

\* the end (exclusive) of "\d{1,2}[-/]\d{1,2}[-/]\d{2,4}" from position e, 0
\* if it does not match there
DateTokenEnd(t, e) ==
    LET d1 == RunEnd(t, e, IsDigit)
        d2 == RunEnd(t, d1 + 1, IsDigit)
        d3 == RunEnd(t, d2 + 1, IsDigit)
    IN IF /\ e <= Len(t)
          /\ d1 - e \in {1, 2}
          /\ d1 <= Len(t) /\ IsDateSep(t[d1])
          /\ d2 - (d1 + 1) \in {1, 2}
          /\ d2 <= Len(t) /\ IsDateSep(t[d2])
          /\ d3 - (d2 + 1) >= 2
       THEN d2 + 1 + UpTo4(d3 - (d2 + 1))
       ELSE 0

\* <label>[:\s]+(\d{1,2}[-/]\d{1,2}[-/]\d{2,4}) at position i: group(1), or
\* NoMatch
DateAt(t, label, i) ==
    LET a == i + Len(label)
        e == RunEnd(t, a, IsColonSpace)
    IN IF At(t, i, label) /\ e > a /\ DateTokenEnd(t, e) # 0
       THEN Str(SubSeq(t, e, DateTokenEnd(t, e) - 1))
       ELSE NoMatch

\* (?:<label 1>|<label 2>|...)[:\s]+(<date>) at position i
DateAtAny(t, labels, i) ==
    LET n == FirstIdx(labels, LAMBDA w : DateAt(t, w, i) # NoMatch)
    IN IF n = 0 THEN NoMatch ELSE DateAt(t, labels[n], i)

\* re.search of that pattern: group(1), or NoMatch
SearchDate(t, labels) ==
    LET i == FirstPos(t, LAMBDA p : DateAtAny(t, labels, p) # NoMatch)
    IN IF i = 0 THEN NoMatch ELSE DateAtAny(t, labels, i)

\* "if match: dates[key] = match.group(1)" over the initial None
OrNone(m) == IF m = NoMatch THEN None ELSE m

\* _extract_dates with the statement date overwritten by a payment date found
\* in the text
ExtractDatesTextFirst(response_) ==
    LET text == LowerText(response_)
        payment == SearchDate(text.s, <<W_payment_date>>)
    IN IF text.k = "raised" THEN text
       ELSE [k |-> "dict",
             statement_date |-> IF payment # NoMatch THEN payment
                                ELSE Get(response_, "date", None),
             due_date |-> Get(response_, "due_date", None),
             payment_date |-> OrNone(payment),
             loan_origination_date |->
                 OrNone(SearchDate(text.s, <<W_loan_date, W_origination_date>>))]

\* _extract_dates(response)
ExtractDates(response_) ==
    LET text == LowerText(response_)
    IN IF text.k = "raised" THEN text
       ELSE [k |-> "dict",
             statement_date |-> Get(response_, "date", None),
             due_date |-> Get(response_, "due_date", None),
             payment_date |-> OrNone(SearchDate(text.s, <<W_payment_date>>)),
             loan_origination_date |->
                 OrNone(SearchDate(text.s, <<W_loan_date, W_origination_date>>))]

\* veryfi_response.get('vendor', {}).get('name', None)
LenderName(response_) ==
    LET vendor == Get(response_, "vendor", [k |-> "dict", name |-> Missing,
                                             address |-> Missing])
    IN IF vendor.k = "dict" THEN Get(vendor, "name", None)
       ELSE Raised("AttributeError")

\* the values of the parsed_fields literal, in the order Python evaluates them
ParsedValues(response_) ==
    <<ExtractLoanAmount(response_),
      ExtractOutstandingBalance(response_),
      ExtractApr(response_),
      ExtractLoanTerms(response_),
      ExtractPropertyAddress(response_),
      ExtractDates(response_),
      Get(response_, "total", None),
      LenderName(response_)>>

IsRaised(x) == x.k = "raised"

\* the mortgage_data literal over the values v of its parsed_fields; when
\* one of them raised, the exception of the first that did
MortgageData(response_, v) ==
    IF FirstIdx(v, IsRaised) # 0 THEN v[FirstIdx(v, IsRaised)]
    ELSE [k |-> "dict",
          raw_response |-> response_,
          parsed_fields |->
              [k |-> "dict",
               loan_amount |-> v[1],
               outstanding_balance |-> v[2],
               apr |-> v[3],
               loan_terms |-> v[4],
               property_address |-> v[5],
               dates |-> v[6],
               payment_amount |-> v[7],
               lender_name |-> v[8]],
          confidence_score |-> Get(response_, "confidence", None),
          document_type |-> Get(response_, "document_type", None)]

\* _extract_mortgage_fields(veryfi_response)
ExtractMortgageFields(response_) ==
    MortgageData(response_, ParsedValues(response_))

\* the response had the method taken the total out of it (dict.pop)
ResponseAfterPop(response_) == [response_ EXCEPT !.total = Missing]

\* the response after _extract_mortgage_fields has run: the method and the
\* extractors only read it (dict.get), no statement assigns to it
ResponseAfterExtract(response_) == response_

-----------------------------------------------------------------------------
(* format_output *)

\* format_output(mortgage_data).  The text is the sequence of its lines, a
\* line being its label and the characters that follow ": " (none for a
\* heading or an empty line).  f"${x:,.2f}" takes a number only: the first
\* amount that is a str is a ValueError, any other value a TypeError.  (Amounts are rounded to cents
\* by their third fraction digit; where that digit is an exact 5 Python
\* rounds the binary value, which the responses modelled here, of at most
\* two fraction digits, never ask for.)  An apr is a float, printed with at
\* least one fraction digit.  dates.items() runs in insertion order, and
\* date_type.replace('_', ' ').title() is the label.
FormatOutput(mortgage_data) ==
    LET parsed == Get(mortgage_data, "parsed_fields", [k |-> "dict"])
        Value(key) == IF key \in DOMAIN parsed THEN Get(parsed, key, None)
                      ELSE None
        Line(label, chars) == [label |-> label, value |-> chars]
        Cents(v) ==
            v.int * 100
              + DigitsToNat(SubSeq(v.frac \o <<"0","0">>, 1, 2))
              + (IF Len(v.frac) > 2 /\ DigitVal(v.frac[3]) >= 5 THEN 1 ELSE 0)
        Grouped(ds) ==
            Concat([i \in 1..Len(ds) |->
                       IF i > 1 /\ (Len(ds) - i + 1) % 3 = 0
                       THEN <<",", ds[i]>> ELSE <<ds[i]>>])
        Currency(v) ==
            <<"$">> \o (IF v.neg THEN <<"-">> ELSE <<>>)
                \o Grouped(NatToDigits(Cents(v) \div 100))
                \o <<".", Digits[((Cents(v) % 100) \div 10) + 1],
                      Digits[(Cents(v) % 10) + 1]>>
        Plain(label, key) ==
            IF Truthy(Value(key)) THEN <<Line(label, StrOf(Value(key)))>>
            ELSE <<>>
        Amount(label, key) ==
            IF Truthy(Value(key)) /\ Value(key).k = "num"
            THEN <<Line(label, Currency(Value(key)))>>
            ELSE <<>>
        Rate(label, key) ==
            IF ~Truthy(Value(key)) THEN <<>>
            ELSE IF Value(key).k = "num" /\ Value(key).frac = <<>>
            THEN <<Line(label, StrOf(Value(key)) \o <<".","0","%">>)>>
            ELSE <<Line(label, StrOf(Value(key)) \o <<"%">>)>>
        BadAmount(key) == Truthy(Value(key)) /\ Value(key).k # "num"
        dates == Value("dates")
        Date(label, key) ==
            IF key \in DOMAIN dates /\ Truthy(Get(dates, key, None))
            THEN <<Line(label, StrOf(dates[key]))>>
            ELSE <<>>
        confidence == Get(mortgage_data, "confidence_score", None)
        bad == IF BadAmount("loan_amount") THEN Value("loan_amount")
               ELSE IF BadAmount("outstanding_balance")
               THEN Value("outstanding_balance")
               ELSE IF BadAmount("payment_amount")
               THEN Value("payment_amount")
               ELSE None
    IN IF bad # None
       THEN Raised(IF bad.k = "str" THEN "ValueError" ELSE "TypeError")
       ELSE [k |-> "text",
             lines |->
                 <<Line("=== Mortgage Statement Summary ===", <<>>),
                   Line("", <<>>)>>
                 \o Plain("Lender", "lender_name")
                 \o Amount("Original Loan Amount", "loan_amount")
                 \o Amount("Outstanding Balance", "outstanding_balance")
                 \o Rate("APR", "apr")
                 \o Plain("Loan Terms", "loan_terms")
                 \o Plain("Property Address", "property_address")
                 \o Amount("Payment Amount", "payment_amount")
                 \o (IF Truthy(dates)
                     THEN <<Line("", <<>>),
                            Line("=== Important Dates ===", <<>>)>>
                          \o Date("Statement Date", "statement_date")
                          \o Date("Due Date", "due_date")
                          \o Date("Payment Date", "payment_date")
                          \o Date("Loan Origination Date",
                                  "loan_origination_date")
                     ELSE <<>>)
                 \o (IF Truthy(confidence)
                     THEN <<Line("", <<>>),
                            Line("Confidence Score", StrOf(confidence))>>
                     ELSE <<>>)]

-----------------------------------------------------------------------------
(* The strings of the modelled responses, as character sequences *)

T_APR_375 == <<"A","P","R",":"," ","3",".","7","5","%">>
T_Interest_Rate_425 ==
    <<"I","n","t","e","r","e","s","t"," ","R","a","t","e"," ","4",".","2","5",
      " ">>
T_annual_percentage_rate_5 ==
    <<"a","n","n","u","a","l"," ","p","e","r","c","e","n","t","a","g","e"," ",
      "r","a","t","e",":","\n","5",".">>
T_30_year_fixed == <<"3","0"," ","y","e","a","r"," ","f","i","x","e","d">>
T_12_month_term == <<"1","2"," ","M","o","n","t","h"," ","T","e","r","m">>
T_Loan_Term == <<"L","o","a","n"," ","T","e","r","m",":"," ">>
T_year == <<" ","y","e","a","r">>
T_Property == <<"P","r","o","p","e","r","t","y">>
T_Address == <<" ","A","d","d","r","e","s","s">>
T_12_Oak_St == <<"1","2"," ","O","a","k"," ","S","t">>
T_Payment_Date == <<"P","a","y","m","e","n","t"," ","D","a","t","e",":"," ">>
T_loan_date == <<"l","o","a","n"," ","d","a","t","e"," ">>
T_Origination_Date ==
    <<"O","r","i","g","i","n","a","t","i","o","n"," ","D","a","t","e",":">>
T_1_2_24 == <<"1","/","2","/","2","4">>
T_Payment_Date_1_2_24 == T_Payment_Date \o T_1_2_24 \o <<" ">>
T_03_04_2020 == <<"0","3","-","0","4","-","2","0","2","0">>
T_2024_01_02 == <<"2","0","2","4","-","0","1","-","0","2">>
T_mock_ocr_text ==
    <<"A","P","R",":"," ","3",".","7","5","%"," ","L","o","a","n"," ","T","e",
      "r","m",":"," ","3","0"," ","y","e","a","r"," ","f","i","x","e","d">>
S_Principal_Balance ==
    <<"P","r","i","n","c","i","p","a","l"," ","B","a","l","a","n","c","e">>
S_principal_balance_lc ==
    <<"p","r","i","n","c","i","p","a","l"," ","b","a","l","a","n","c","e">>
S_PRINCIPAL_BALANCE_uc ==
    <<"P","R","I","N","C","I","P","A","L"," ","B","A","L","A","N","C","E">>
S_Remaining_balance ==
    <<"Y","o","u","r"," ","r","e","m","a","i","n","i","n","g"," ","b","a","l",
      "a","n","c","e">>
S_Original_Loan_Amount ==
    <<"O","r","i","g","i","n","a","l"," ","L","o","a","n"," ","A","m","o","u",
      "n","t">>
S_Loan_Amount == <<"L","o","a","n"," ","A","m","o","u","n","t">>
S_APR == <<"A","P","R">>
S_Interest_Rate == <<"I","n","t","e","r","e","s","t"," ","R","a","t","e">>
S_425_percent == <<"4",".","2","5","%">>
S_4_percent_2 == <<"4","%","2">>
S_350_000 == <<"3","5","0",",","0","0","0">>
S_Test_Mortgage_Co ==
    <<"T","e","s","t"," ","M","o","r","t","g","a","g","e"," ","C","o",".">>
S_456_Bank_St ==
    <<"4","5","6"," ","B","a","n","k"," ","S","t",","," ","F","i","n","a","n",
      "c","e"," ","C","i","t","y",","," ","S","T"," ","6","7","8","9","0">>
S_1_Home_Rd == <<"1"," ","H","o","m","e"," ","R","d">>
S_2024_01_15 == <<"2","0","2","4","-","0","1","-","1","5">>
S_2024_02_01 == <<"2","0","2","4","-","0","2","-","0","1">>
S_mortgage == <<"m","o","r","t","g","a","g","e">>

-----------------------------------------------------------------------------
(* The responses the parser is run on *)

MaxFrags == 3      \* fragments a recognized text is put together from
MaxItems == 2      \* line items of a response
MaxFields == 2     \* custom fields of a response

\* the sequences over S of length at most n
SeqsUpTo(S, n) == UNION {[1..m -> S] : m \in 0..n}

\* the texts put together from at most n fragments
Texts(frags, n) == {Concat(fs) : fs \in SeqsUpTo(frags, n)}

Item(description, total) ==
    [k |-> "dict", description |-> description, total |-> total]
Field(name, value) == [k |-> "dict", name |-> name, value |-> value]
Block(name, address) == [k |-> "dict", name |-> name, address |-> address]

\* {}: no key of the response is present
EmptyResponse ==
    [k |-> "dict", ocr_text |-> Missing, line_items |-> Missing,
     custom_fields |-> Missing, vendor |-> Missing, bill_to |-> Missing,
     total |-> Missing, date |-> Missing, due_date |-> Missing,
     confidence |-> Missing, document_type |-> Missing]

N_287450_23 == Num(FALSE, 287450, <<"2","3">>)
N_0_95 == Num(FALSE, 0, <<"9","5">>)
N_3_75 == Num(FALSE, 3, <<"7","5">>)

\* mock_response of test_extraction_with_mock_data
MockResponse ==
    [EmptyResponse EXCEPT
        !.ocr_text = Str(T_mock_ocr_text),
        !.total = N_287450_23,
        !.date = Str(S_2024_01_15),
        !.due_date = Str(S_2024_02_01),
        !.vendor = Block(Str(S_Test_Mortgage_Co), Str(S_456_Bank_St)),
        !.line_items = List(<<Item(Str(S_Principal_Balance), N_287450_23)>>),
        !.confidence = N_0_95,
        !.custom_fields = List(<<>>)]

AprFrags ==
    {T_APR_375, T_Interest_Rate_425, T_annual_percentage_rate_5,
     <<"a","p","r">>, <<":"," ">>}

AprFields ==
    {Field(Str(S_APR), Str(<<"n","/","a">>)),
     Field(Str(S_APR), IntNum(0)),
     Field(Str(S_APR), N_3_75),
     Field(Str(S_APR), None),
     Field(Str(S_APR), Str(S_4_percent_2)),
     Field(Str(S_Interest_Rate), Str(S_425_percent)),
     Field(Str(<<"F","e","e">>), Str(<<"9">>))}

\* a response for the text patterns of _extract_apr
AprTextResponse(t, cf) ==
    [EmptyResponse EXCEPT !.ocr_text = Str(t), !.custom_fields = cf]

AprTextFields == {Missing, None, List(<<Field(Str(S_APR), Str(<<"9">>))>>)}

\* a response for the custom-field loop of _extract_apr
AprFieldResponse(t, fs) ==
    [EmptyResponse EXCEPT !.ocr_text = t, !.custom_fields = List(fs)]

AprFieldTexts == {Missing, Str(<<"a","p","r">>)}

Items ==
    {Item(Str(S_Principal_Balance), N_287450_23),
     Item(Str(S_principal_balance_lc), N_287450_23),
     Item(Str(S_PRINCIPAL_BALANCE_uc), N_287450_23),
     Item(Str(S_Remaining_balance), Missing),
     Item(Str(S_Original_Loan_Amount), IntNum(350000)),
     Item(Str(S_Loan_Amount), None),
     Item(Str(<<"E","s","c","r","o","w">>), IntNum(100)),
     Item(None, IntNum(2))}

LoanFieldLists ==
    {Missing, None,
     List(<<Field(Str(S_Loan_Amount), Str(S_350_000))>>),
     List(<<Field(Str(<<"F","e","e">>), Str(<<"9">>)),
            Field(Str(S_Original_Loan_Amount), IntNum(5))>>),
     List(<<Field(Str(S_Loan_Amount), None)>>)}

Totals == {Missing, None, IntNum(0), IntNum(0 - 1), N_287450_23}

\* a response for _extract_loan_amount and _extract_outstanding_balance
ItemResponse(is, cf, tot) ==
    [EmptyResponse EXCEPT !.line_items = List(is), !.custom_fields = cf,
                          !.total = tot]

TermFrags ==
    {T_30_year_fixed, T_12_month_term, T_Loan_Term, <<"3","0">>, T_year, <<" ">>}

\* a response for the text patterns of an extractor
TextResponse(t) == [EmptyResponse EXCEPT !.ocr_text = Str(t)]

AddressFrags ==
    {T_Property, T_Address, <<":">>, <<" ">>, <<"\n">>, T_12_Oak_St}

Vendors ==
    {Missing, None,
     Block(Missing, Missing),
     Block(Str(S_Test_Mortgage_Co), Missing),
     Block(Str(S_Test_Mortgage_Co), None),
     Block(Str(S_Test_Mortgage_Co), EmptyStr),
     Block(Str(S_Test_Mortgage_Co), Str(S_456_Bank_St))}

BillTos ==
    {Missing, None,
     Block(Missing, EmptyStr),
     Block(Missing, Str(S_1_Home_Rd))}

AddressTexts ==
    {Missing, Str(T_Property \o <<":"," ">> \o T_12_Oak_St),
     Str(T_Property \o <<":"," ">>)}

\* a response for _extract_property_address
AddressResponse(v, b, t) ==
    [EmptyResponse EXCEPT !.vendor = v, !.bill_to = b, !.ocr_text = t]

EmptyVendors == {Missing, Block(Str(S_Test_Mortgage_Co), EmptyStr)}

DateFrags ==
    {T_Payment_Date, T_Payment_Date_1_2_24, T_loan_date, T_Origination_Date,
     T_03_04_2020, T_2024_01_02}

TopDates ==
    {<<Missing, None>>, <<None, Str(S_2024_02_01)>>,
     <<Str(T_1_2_24), Missing>>, <<Str(S_2024_01_15), Str(S_2024_02_01)>>}

\* a response for _extract_dates
DateResponse(d, t) ==
    [EmptyResponse EXCEPT !.date = d[1], !.due_date = d[2],
                          !.ocr_text = Str(t)]

\* a key is missing, holds None, or holds the value of the mock response
Optional(key) == {Missing, None, MockResponse[key]}

OptionalBillTo == {Missing, None, Block(Missing, Str(S_1_Home_Rd))}

OptionalScalars ==
    {<<Missing, Missing, Missing, Missing>>,
     <<None, None, None, None>>,
     <<Str(S_2024_01_15), Str(S_2024_02_01), N_0_95, Str(S_mortgage)>>}

\* a response in which any of the keys is missing or holds None
SparseResponse(t, li, cf, v, b, tot, s) ==
    [k |-> "dict", ocr_text |-> t, line_items |-> li, custom_fields |-> cf,
     vendor |-> v, bill_to |-> b, total |-> tot, date |-> s[1],
     due_date |-> s[2], confidence |-> s[3], document_type |-> s[4]]

\* the responses the parser is run on
IsResponse(r) ==
    \/ \E t \in Texts(AprFrags, MaxFrags) :
           r = AprTextResponse(t, List(<<Field(Str(S_APR), Str(<<"9">>))>>))
    \/ \E t \in Texts(AprFrags, 1), cf \in AprTextFields :
           r = AprTextResponse(t, cf)
    \/ \E t \in AprFieldTexts, fs \in SeqsUpTo(AprFields, MaxFields) :
           r = AprFieldResponse(t, fs)
    \/ \E is \in SeqsUpTo(Items, MaxItems), tot \in Totals :
           r = ItemResponse(is, Missing, tot)
    \/ \E is \in SeqsUpTo(Items, MaxItems), cf \in LoanFieldLists :
           r = ItemResponse(is, cf, Missing)
    \/ \E is \in SeqsUpTo(Items, MaxItems) :
           r = ItemResponse(is, List(<<Field(Str(S_Loan_Amount),
                                            Str(S_350_000))>>),
                            N_287450_23)
    \/ \E t \in Texts(TermFrags, MaxFrags) : r = TextResponse(t)
    \/ \E v \in Vendors, b \in BillTos, t \in AddressTexts :
           r = AddressResponse(v, b, t)
    \/ \E v \in EmptyVendors, t \in Texts(AddressFrags, MaxFrags) :
           r = AddressResponse(v, Missing, Str(t))
    \/ \E t \in Texts(DateFrags, MaxFrags) :
           r = DateResponse(<<Str(S_2024_01_15), Str(S_2024_02_01)>>, t)
    \/ \E d \in TopDates, t \in Texts(DateFrags, 1) :
           r = DateResponse(d, t)
    \/ \E t \in Optional("ocr_text"), li \in Optional("line_items"),
          cf \in Optional("custom_fields"), v \in Optional("vendor"),
          b \in OptionalBillTo, tot \in Optional("total"),
          s \in OptionalScalars :
           r = SparseResponse(t, li, cf, v, b, tot, s)

\* the responses of the runs that call _extract_mortgage_fields repeatedly
RepeatResponses ==
    {[MockResponse EXCEPT !.ocr_text = t, !.vendor = v, !.total = tot] :
        t \in Optional("ocr_text"), v \in Optional("vendor"),
        tot \in Optional("total")}

MaxCalls == 2      \* calls counted on the first response, and on the others

-----------------------------------------------------------------------------
(* The state machine: a caller runs the methods of one parser on a response *)

NoResult == [k |-> "noresult"]

Init ==
    /\ IsResponse(response)
    /\ pc = "start"
    /\ result = NoResult
    /\ r0 = NoResult
    /\ first = NoResult
    /\ calls = [same |-> 0, other |-> 0]
    /\ output = NoResult
    /\ request = NoResult
    /\ submitted = <<>>

\* a call of one extractor on a response not yet processed
Call(name, value) ==
    /\ pc = "start"
    /\ pc' = name
    /\ result' = value
    /\ UNCHANGED <<response, r0, first, calls, output, request, submitted>>

CallExtractLoanAmount == Call("loan_amount", ExtractLoanAmount(response))

CallExtractOutstandingBalance ==
    Call("outstanding_balance", ExtractOutstandingBalance(response))

CallExtractApr == Call("apr", ExtractApr(response))

CallExtractLoanTerms == Call("loan_terms", ExtractLoanTerms(response))

CallExtractPropertyAddress ==
    Call("property_address", ExtractPropertyAddress(response))

CallExtractDates == Call("dates", ExtractDates(response))

\* a call of _extract_mortgage_fields on the response
Normalize ==
    /\ pc' = "normalize"
    /\ result' = ExtractMortgageFields(response)
    /\ response' = ResponseAfterExtract(response)

CallExtractMortgageFields ==
    /\ pc = "start"
    /\ Normalize
    /\ UNCHANGED <<r0, first, calls, output, request, submitted>>

\* format_output on the record a call has returned, as main does
CallFormatOutput ==
    /\ pc \in {"normalize", "parse"}
    /\ result.k = "dict"
    /\ pc' = "render"
    /\ output' = FormatOutput(result)
    /\ UNCHANGED <<response, result, r0, first, calls, request, submitted>>

Next ==
    \/ CallExtractLoanAmount
    \/ CallExtractOutstandingBalance
    \/ CallExtractApr
    \/ CallExtractLoanTerms
    \/ CallExtractPropertyAddress
    \/ CallExtractDates
    \/ CallExtractMortgageFields
    \/ CallFormatOutput

Spec == Init /\ [][Next]_vars

(* A caller that keeps one parser and calls _extract_mortgage_fields again
   and again, on the same response and on others *)

InitRepeat ==
    /\ response \in RepeatResponses
    /\ pc = "start"
    /\ result = NoResult
    /\ r0 = NoResult
    /\ first = NoResult
    /\ calls = [same |-> 0, other |-> 0]
    /\ output = NoResult
    /\ request = NoResult
    /\ submitted = <<>>

\* one more call; the first call of the run is remembered
CallAgain ==
    /\ Normalize
    /\ UNCHANGED <<output, request, submitted>>
    /\ IF r0 = NoResult
       THEN r0' = response /\ first' = result'
                /\ calls' = [calls EXCEPT !.same = 1]
       ELSE /\ UNCHANGED <<r0, first>>
            /\ IF response = r0
               THEN calls.same < MaxCalls
                        /\ calls' = [calls EXCEPT !.same = @ + 1]
               ELSE calls.other < MaxCalls
                        /\ calls' = [calls EXCEPT !.other = @ + 1]

\* the caller turns to another response
NewResponse ==
    /\ \E r \in RepeatResponses : response' = r
    /\ pc' = "start"
    /\ result' = NoResult
    /\ UNCHANGED <<r0, first, calls, output, request, submitted>>

NextRepeat == CallAgain \/ NewResponse

SpecRepeat == InitRepeat /\ [][NextRepeat]_vars

(* A caller that hands a file to parse_mortgage_statement and prints the
   record, as main does.  The service is the veryfi Client: called with the
   file, it returns the response of the document or raises. *)

\* parse_mortgage_statement without the os.path.exists test
CallParseWithoutExistsTest ==
    /\ pc = "start"
    /\ pc' = "parse"
    /\ \E path \in {"statement.pdf", "scan.jpg"}, exists, fails \in BOOLEAN :
           /\ fails => exists
           /\ request' = [file_path |-> path, exists |-> exists,
                          service_fails |-> fails]
    /\ submitted' =
           Append(submitted,
                  [file_path |-> request'.file_path,
                   categories |-> <<"mortgage", "financial",
                                    "bank statement">>])
    /\ result' = IF request'.service_fails THEN Raised("Exception")
                 ELSE ExtractMortgageFields(response)
    /\ UNCHANGED <<response, r0, first, calls, output>>

\* parse_mortgage_statement(file_path): the file is there or not; when it
\* is, process_document is called with it and the categories, and
\* _extract_mortgage_fields is run on what it returns
CallParseMortgageStatement ==
    /\ pc = "start"
    /\ pc' = "parse"
    /\ \E path \in {"statement.pdf", "scan.jpg"}, exists, fails \in BOOLEAN :
           /\ fails => exists
           /\ request' = [file_path |-> path, exists |-> exists,
                          service_fails |-> fails]
    /\ submitted' =
           IF ~request'.exists THEN submitted
           ELSE Append(submitted,
                       [file_path |-> request'.file_path,
                        categories |-> <<"mortgage", "financial",
                                         "bank statement">>])
    /\ result' = IF ~request'.exists THEN Raised("FileNotFoundError")
                 ELSE IF request'.service_fails THEN Raised("Exception")
                 ELSE ExtractMortgageFields(response)
    /\ UNCHANGED <<response, r0, first, calls, output>>

SpecAcquire ==
    InitRepeat /\ [][CallParseMortgageStatement \/ CallFormatOutput]_vars

-----------------------------------------------------------------------------
(* What the claims read off a response *)

\* the line items, custom fields and text of a response whose keys hold what
\* the data model gives them (a sequence, a sequence, a string) or are
\* missing
LineItemsOf(r) == Get(r, "line_items", List(<<>>))
CustomFieldsOf(r) == Get(r, "custom_fields", List(<<>>))
TextOf(r) == Get(r, "ocr_text", EmptyStr)
HasLineItems(r) == LineItemsOf(r).k = "list"
HasCustomFields(r) == CustomFieldsOf(r).k = "list"
HasText(r) == TextOf(r).k = "str"

\* the description of a line item, in lower case
DescriptionOf(item) == Lower(StrOf(Get(item, "description", EmptyStr)))

\* position i of the line items is the first whose description holds one of
\* the words
FirstItemWith(r, words, i) ==
    /\ i \in 1..Len(LineItemsOf(r).v)
    /\ \E w \in words : Contains(DescriptionOf(LineItemsOf(r).v[i]), w)
    /\ \A j \in 1..(i - 1) :
           \A w \in words : ~Contains(DescriptionOf(LineItemsOf(r).v[j]), w)

LoanAmountWords == {W_original_loan, W_loan_amount}
BalanceWords ==
    {W_principal_balance, W_outstanding_balance, W_current_balance,
     W_remaining_balance}

\* some custom field is named "loan amount"
HasLoanAmountField(r) ==
    /\ HasCustomFields(r)
    /\ \E j \in 1..Len(CustomFieldsOf(r).v) :
           Contains(Lower(StrOf(Get(CustomFieldsOf(r).v[j], "name", EmptyStr))),
                    W_loan_amount)

DateKeys ==
    {"statement_date", "due_date", "payment_date", "loan_origination_date"}

-----------------------------------------------------------------------------
(* C1 *)

\* C1: for every response, with any of its keys missing or holding None,
\* _extract_mortgage_fields returns a record (it never raises), and the dates
\* of its parsed_fields have exactly the four date keys.
C1_NormalizeNeverRaises ==
    pc = "normalize" =>
        /\ result.k = "dict"
        /\ DOMAIN result.parsed_fields.dates = DateKeys \cup {"k"}

-----------------------------------------------------------------------------
(* C2 *)

\* C2: when a line item's description holds "original loan" or "loan amount"
\* the loan amount is the total of the first such item, whatever the custom
\* fields hold: a custom field named "loan amount" never overrides it, and
\* the custom fields are not even read (None in their place does not raise).
C2_LineItemWins ==
    (pc = "loan_amount" /\ HasLineItems(response)) =>
        \A i \in 1..Len(LineItemsOf(response).v) :
            FirstItemWith(response, LoanAmountWords, i) =>
                result = Get(LineItemsOf(response).v[i], "total", None)

\* a line item and a custom field both match, with different values, and the
\* extractor returned the line item's total
C2_Witness ==
    /\ pc = "loan_amount"
    /\ HasLineItems(response)
    /\ HasLoanAmountField(response)
    /\ \E i \in 1..Len(LineItemsOf(response).v) :
          /\ FirstItemWith(response, LoanAmountWords, i)
          /\ result = LineItemsOf(response).v[i].total
    /\ result = IntNum(350000)
    /\ LoanAmountFromFields(response) = Str(S_350_000)

-----------------------------------------------------------------------------
(* C3 *)

\* C3: the loan amount an extraction returns is a number or absent, never a
\* raw string: a custom field's value is coerced to a number.
C3_LoanAmountIsNumber ==
    /\ (pc = "loan_amount" /\ result.k # "raised") =>
           result.k \in {"num", "none"}
    /\ (pc = "normalize" /\ result.k = "dict") =>
           result.parsed_fields.loan_amount.k \in {"num", "none"}

-----------------------------------------------------------------------------
(* C4 *)

\* the document-level total when it is present and greater than zero
PositiveTotal(r) ==
    /\ Get(r, "total", None).k = "num"
    /\ ~Get(r, "total", None).neg
    /\ Get(r, "total", None) # IntNum(0)

\* the response with the description of every line item in upper case
UpperChar(c) ==
    IF \E i \in 1..26 : LowerCase[i] = c
    THEN UpperCase[CHOOSE i \in 1..26 : LowerCase[i] = c]
    ELSE c

UpperDescription(item) ==
    IF item.description.k = "str"
    THEN [item EXCEPT !.description =
              Str([n \in 1..Len(item.description.s) |->
                       UpperChar(item.description.s[n])])]
    ELSE item

WithUpperDescriptions(r) ==
    [r EXCEPT !.line_items =
        List([n \in 1..Len(r.line_items.v) |->
                  UpperDescription(r.line_items.v[n])])]

\* C4: the outstanding balance is the total of the first line item whose
\* description holds, in any letter case, one of the four balance words,
\* whatever the document-level total is; with no such item it is the
\* document-level total when that is present and greater than zero, and
\* otherwise absent (never 0).  The letter case of the descriptions does not
\* change it.
C4_BalanceReference ==
    (pc = "outstanding_balance" /\ HasLineItems(response)) =>
        /\ \A i \in 1..Len(LineItemsOf(response).v) :
               FirstItemWith(response, BalanceWords, i) =>
                   result = Get(LineItemsOf(response).v[i], "total", None)
        /\ (~\E i \in 1..Len(LineItemsOf(response).v) :
                FirstItemWith(response, BalanceWords, i)) =>
               /\ PositiveTotal(response) => result = response.total
               /\ ~PositiveTotal(response) => result = None
        /\ response.line_items.k = "list" =>
               result = ExtractOutstandingBalance(WithUpperDescriptions(response))

\* no line item matches, the total is 0, and the balance is absent
C4_Witness ==
    /\ pc = "outstanding_balance"
    /\ HasLineItems(response)
    /\ Len(LineItemsOf(response).v) > 0
    /\ ~\E i \in 1..Len(LineItemsOf(response).v) :
           FirstItemWith(response, BalanceWords, i)
    /\ response.total = IntNum(0)
    /\ result = None

-----------------------------------------------------------------------------
(* What it is for a pattern to match somewhere in a text, stated without an
   order of search: a label, one or more separator characters, then what
   must follow them *)

\* the text of a response in lower case
LowerTextOf(r) == Lower(TextOf(r).s)

\* positions a..(e - 1) of t are one or more [:\s] characters
SeparatorRun(t, a, e) ==
    e > a /\ e - 1 <= Len(t) /\ \A j \in a..(e - 1) : IsColonSpace(t[j])

\* <label>[:\s]+\d matches somewhere in t
LabelledNumberIn(t, label) ==
    \E i \in 1..Len(t) :
        /\ At(t, i, label)
        /\ \E e \in (i + Len(label))..Len(t) :
               SeparatorRun(t, i + Len(label), e) /\ IsDigit(t[e])

\* the labels of the three APR patterns, in the order the claim gives
AprLabels == <<W_apr, W_annual_percentage_rate, W_interest_rate>>

-----------------------------------------------------------------------------
(* C5 *)

\* C5: the APR is the number captured by the first of the patterns "apr",
\* "annual percentage rate", "interest rate", in that order, that matches
\* anywhere in the text, wherever in the text the matches stand; a text match
\* wins over every custom field.
C5_AprTextOrder ==
    (pc = "apr" /\ HasText(response)) =>
        \A n \in 1..3 :
            (/\ LabelledNumberIn(LowerTextOf(response), AprLabels[n])
             /\ \A m \in 1..(n - 1) :
                    ~LabelledNumberIn(LowerTextOf(response), AprLabels[m]))
            => result =
                   PyFloat(SearchNumber(LowerTextOf(response), AprLabels[n]).s)

\* "interest rate 4.25" stands in the text before "apr: 3.75", a custom field
\* named APR holds 9, and the APR is 3.75
C5_Witness ==
    /\ pc = "apr"
    /\ HasText(response)
    /\ \E i, j \in 1..Len(LowerTextOf(response)) :
          /\ i < j
          /\ NumberAt(LowerTextOf(response), W_interest_rate, i)
          /\ NumberAt(LowerTextOf(response), W_apr, j)
    /\ response.custom_fields = List(<<Field(Str(S_APR), Str(<<"9">>))>>)
    /\ result = N_3_75

-----------------------------------------------------------------------------
(* C6 *)

\* the number a custom-field value coerces to once a trailing % is stripped,
\* NoMatch when it does not coerce
CoerceRate(value) ==
    LET s == IF value.s # <<>> /\ value.s[Len(value.s)] = "%"
             THEN SubSeq(value.s, 1, Len(value.s) - 1)
             ELSE value.s
    IN IF value.k = "num" THEN value
       ELSE IF value.k = "str" /\ PyFloat(s).k = "num" THEN PyFloat(s)
       ELSE NoMatch

\* the custom field at position j is named "apr" or "interest rate" and its
\* value coerces
RateFieldAt(r, j) ==
    LET f == CustomFieldsOf(r).v[j]
        name == Lower(StrOf(Get(f, "name", EmptyStr)))
    IN /\ Contains(name, W_apr) \/ Contains(name, W_interest_rate)
       /\ CoerceRate(Get(f, "value", None)) # NoMatch

\* C6: when no APR pattern matches the text, the APR is the value of the
\* first custom field, in order, that is named "apr" or "interest rate" and
\* coerces to a number after a trailing % is stripped; fields that do not
\* coerce are passed over; the APR is absent when no such field coerces.
C6_AprFieldFallback ==
    (/\ pc = "apr" /\ HasText(response) /\ HasCustomFields(response)
     /\ \A n \in 1..3 : ~LabelledNumberIn(LowerTextOf(response), AprLabels[n]))
    => /\ \A j \in 1..Len(CustomFieldsOf(response).v) :
              (/\ RateFieldAt(response, j)
               /\ \A i \in 1..(j - 1) : ~RateFieldAt(response, i))
              => result = CoerceRate(Get(CustomFieldsOf(response).v[j],
                                         "value", None))
       /\ (\A j \in 1..Len(CustomFieldsOf(response).v) :
               ~RateFieldAt(response, j)) => result = None

-----------------------------------------------------------------------------
(* C7 *)

\* \d+\s*<unit> matches somewhere in t
UnitIn(t, unit) ==
    \E u \in 1..Len(t) :
        /\ At(t, u, unit)
        /\ \E i \in 1..(u - 1), d \in 2..u :
               /\ i < d
               /\ \A j \in i..(d - 1) : IsDigit(t[j])
               /\ \A j \in d..(u - 1) : IsSpace(t[j])

\* loan term[:\s]+\d+\s*(?:year|month) matches somewhere in t
LoanTermIn(t) ==
    \E i \in 1..Len(t) :
        /\ At(t, i, W_loan_term)
        /\ \E e \in (i + Len(W_loan_term))..Len(t) :
               /\ SeparatorRun(t, i + Len(W_loan_term), e)
               /\ \E u \in (e + 1)..Len(t) :
                      /\ At(t, u, W_year) \/ At(t, u, W_month)
                      /\ \E d \in (e + 1)..u :
                             /\ \A j \in e..(d - 1) : IsDigit(t[j])
                             /\ \A j \in d..(u - 1) : IsSpace(t[j])

\* s has no whitespace at either end
Trimmed(s) == s = <<>> \/ (~IsSpace(s[1]) /\ ~IsSpace(s[Len(s)]))

\* C7: the loan term is the whole matched substring, trimmed, of the first of
\* the patterns (1) "<N> year", (2) "<N> month", (3) "loan term: <N>
\* year|month", in that order, that matches the text: a year match wins over
\* a month match wherever they stand; it is absent exactly when none of the
\* three matches.
C7_LoanTermOrder ==
    (pc = "loan_terms" /\ HasText(response)) =>
        LET t == LowerTextOf(response)
            year == SearchUnit(t, W_year, <<W_fixed, W_term, W_loan>>)
            month == SearchUnit(t, W_month, <<W_term, W_loan>>)
        IN /\ UnitIn(t, W_year) => result = Str(Strip(year.s))
           /\ (~UnitIn(t, W_year) /\ UnitIn(t, W_month)) =>
                  result = Str(Strip(month.s))
           /\ (~UnitIn(t, W_year) /\ ~UnitIn(t, W_month) /\ LoanTermIn(t)) =>
                  result = Str(Strip(SearchLoanTerm(t).s))
           /\ result = None <=>
                  ~(UnitIn(t, W_year) \/ UnitIn(t, W_month) \/ LoanTermIn(t))
           /\ result # None =>
                  /\ result.k = "str"
                  /\ Trimmed(result.s)
                  /\ Contains(t, result.s)
                  /\ IsDigit(result.s[1])
                  /\ Contains(result.s, W_year) \/ Contains(result.s, W_month)

\* "12 month term" stands in the text before "30 year fixed", and the loan
\* term is "30 year fixed"
C7_Witness ==
    /\ pc = "loan_terms"
    /\ HasText(response)
    /\ \E i, j \in 1..Len(LowerTextOf(response)) :
          /\ i < j
          /\ UnitAt(LowerTextOf(response), W_month, i)
          /\ UnitAt(LowerTextOf(response), W_year, j)
    /\ result = Str(Lower(T_30_year_fixed))

-----------------------------------------------------------------------------
(* C8 *)

\* the address of a vendor or bill_to block, when the block holds one that is
\* not empty
AddressOf(r, key) ==
    IF r[key].k = "dict" /\ r[key].address.k = "str" /\ r[key].address.s # <<>>
    THEN r[key].address
    ELSE NoMatch

\* C8: the property address is the vendor's address when that is present and
\* not empty, else the bill-to address when that is present and not empty,
\* else what the "property [address]" pattern captures in the text; it is
\* absent or a non-empty string, never the empty string.
C8_AddressNeverEmpty ==
    (pc = "property_address" /\ result.k # "raised") =>
        /\ AddressOf(response, "vendor") # NoMatch =>
               result = AddressOf(response, "vendor")
        /\ (AddressOf(response, "vendor") = NoMatch
                /\ AddressOf(response, "bill_to") # NoMatch) =>
               result = AddressOf(response, "bill_to")
        /\ result = None \/ (result.k = "str" /\ result.s # <<>>)

-----------------------------------------------------------------------------
(* C9 *)

\* s has the form D[-/]D[-/]YY[YY]: one or two digits, a separator, one or
\* two digits, a separator, two to four digits
IsDateToken(s) ==
    \E a \in 1..2, b \in 1..2, c \in 2..4 :
        /\ Len(s) = a + b + c + 2
        /\ \A j \in 1..Len(s) :
               IF j = a + 1 \/ j = a + b + 2 THEN IsDateSep(s[j])
               ELSE IsDigit(s[j])

\* the date token tok follows the label somewhere in t
DateFollows(t, label, tok) ==
    /\ IsDateToken(tok)
    /\ \E i \in 1..Len(t) :
          /\ At(t, i, label)
          /\ \E e \in (i + Len(label))..Len(t) :
                 SeparatorRun(t, i + Len(label), e) /\ At(t, e, tok)

\* some date token follows the label somewhere in t
LabelledDateIn(t, label) ==
    \E i \in 1..Len(t) :
        /\ At(t, i, label)
        /\ \E e \in (i + Len(label))..Len(t), n \in 5..10 :
               /\ SeparatorRun(t, i + Len(label), e)
               /\ e + n - 1 <= Len(t)
               /\ IsDateToken(SubSeq(t, e, e + n - 1))

\* C9: in the mapping _extract_dates returns, statement_date and due_date
\* are the response's date and due_date as they are (absent when the
\* response has none), whatever the text holds; payment_date is a date token
\* that follows a "payment date" label in the text, loan_origination_date
\* one that follows "loan date" or "origination date", and each is absent
\* exactly when no such token is in the text.
C9_DateSet ==
    (pc = "dates" /\ HasText(response)) =>
        LET t == LowerTextOf(response)
        IN /\ DOMAIN result = DateKeys \cup {"k"}
           /\ result.statement_date = Get(response, "date", None)
           /\ result.due_date = Get(response, "due_date", None)
           /\ result.payment_date = None <=>
                  ~LabelledDateIn(t, W_payment_date)
           /\ result.payment_date # None =>
                  /\ result.payment_date.k = "str"
                  /\ DateFollows(t, W_payment_date, result.payment_date.s)
           /\ result.loan_origination_date = None <=>
                  ~(LabelledDateIn(t, W_loan_date)
                        \/ LabelledDateIn(t, W_origination_date))
           /\ result.loan_origination_date # None =>
                  /\ result.loan_origination_date.k = "str"
                  /\ \/ DateFollows(t, W_loan_date,
                                    result.loan_origination_date.s)
                     \/ DateFollows(t, W_origination_date,
                                    result.loan_origination_date.s)

\* the response has a date and a due date, the text a payment date and a loan
\* date that differ from them, and all four are in the mapping
C9_Witness ==
    /\ pc = "dates"
    /\ HasText(response)
    /\ response.date = Str(S_2024_01_15)
    /\ result.statement_date = Str(S_2024_01_15)
    /\ result.due_date = Str(S_2024_02_01)
    /\ result.payment_date = Str(T_1_2_24)
    /\ result.loan_origination_date = Str(T_03_04_2020)

-----------------------------------------------------------------------------
(* C10 *)

-----------------------------------------------------------------------------
(* C11 *)

\* the labels format_output writes, in the order the claim gives
RenderOrder ==
    <<"Lender", "Original Loan Amount", "Outstanding Balance", "APR",
      "Loan Terms", "Property Address", "Payment Amount", "Statement Date",
      "Due Date", "Payment Date", "Loan Origination Date",
      "Confidence Score">>

\* the field of a record that a label stands for
FieldOf(record, label) ==
    CASE label = "Lender" -> record.parsed_fields.lender_name
      [] label = "Original Loan Amount" -> record.parsed_fields.loan_amount
      [] label = "Outstanding Balance" ->
             record.parsed_fields.outstanding_balance
      [] label = "APR" -> record.parsed_fields.apr
      [] label = "Loan Terms" -> record.parsed_fields.loan_terms
      [] label = "Property Address" -> record.parsed_fields.property_address
      [] label = "Payment Amount" -> record.parsed_fields.payment_amount
      [] label = "Statement Date" ->
             record.parsed_fields.dates.statement_date
      [] label = "Due Date" -> record.parsed_fields.dates.due_date
      [] label = "Payment Date" -> record.parsed_fields.dates.payment_date
      [] label = "Loan Origination Date" ->
             record.parsed_fields.dates.loan_origination_date
      [] label = "Confidence Score" -> record.confidence_score

\* a field is present when the record holds a value for it
Present(v) == v # None /\ v # Missing

\* the lines of a text that carry a value
LabelledLines(text) == SelectSeq(text.lines, LAMBDA l : l.value # <<>>)

\* C11: the labelled lines of the text format_output returns are those of
\* the fields present in the record, one for each and none for an absent
\* field, in the fixed order lender, original loan amount, outstanding
\* balance, APR, loan terms, property address, payment amount, the dates,
\* confidence score; and the line of a present string field carries the
\* field's value.
C11_RenderPresentFields ==
    (pc = "render" /\ output.k = "text") =>
        LET expected ==
                SelectSeq(RenderOrder,
                          LAMBDA l : Present(FieldOf(result, l)))
            lines == LabelledLines(output)
        IN /\ Len(lines) = Len(expected)
           /\ \A i \in 1..Len(lines) :
                  /\ lines[i].label = expected[i]
                  /\ FieldOf(result, expected[i]).k = "str" =>
                         lines[i].value = FieldOf(result, expected[i]).s

-----------------------------------------------------------------------------
(* C12 *)

\* C12: after parse_mortgage_statement on a path that is no existing file
\* the call has raised FileNotFoundError and the service has received
\* nothing; on an existing file the service has received exactly one call,
\* for that file with the categories mortgage, financial, bank statement,
\* and the call returns what _extract_mortgage_fields gives on the response
\* the service returned, or, when the service raised, raises in its turn and
\* returns no record.
C12_Acquire ==
    pc = "parse" =>
        IF ~request.exists
        THEN result = Raised("FileNotFoundError") /\ submitted = <<>>
        ELSE /\ Len(submitted) = 1
             /\ submitted[1].file_path = request.file_path
             /\ submitted[1].categories =
                    <<"mortgage", "financial", "bank statement">>
             /\ IF request.service_fails
                THEN result.k = "raised" /\ result.exc # "FileNotFoundError"
                ELSE result = ExtractMortgageFields(response)

\* an existing file was parsed: one call reached the service and the record
\* is that of the response it returned
C12_Witness ==
    /\ pc = "parse"
    /\ request.exists
    /\ ~request.service_fails
    /\ Len(submitted) = 1
    /\ result.k = "dict"
    /\ result.raw_response = response
    /\ result.parsed_fields.apr = N_3_75
    /\ result.parsed_fields.outstanding_balance = N_287450_23

-----------------------------------------------------------------------------
(* C13 *)

\* C13: format_output on a record that _extract_mortgage_fields has returned
\* returns a text and does not raise: whatever the record holds as
\* loan_amount, outstanding_balance or payment_amount, the two-decimal
\* currency format accepts it.
C13_RenderTotal ==
    pc = "render" => output.k = "text"

-----------------------------------------------------------------------------
(* C14 *)

\* C14: whenever the "loan term" pattern matches the text, the year pattern
\* or the month pattern matches it too, so the loan term returned is the
\* trimmed match of the year pattern, or else of the month pattern, and the
\* label "loan term" is never part of it.
C14_ThirdPatternNeverDecides ==
    (pc = "loan_terms" /\ HasText(response)) =>
        LET t == LowerTextOf(response)
            year == SearchUnit(t, W_year, <<W_fixed, W_term, W_loan>>)
            month == SearchUnit(t, W_month, <<W_term, W_loan>>)
        IN /\ LoanTermIn(t) => (UnitIn(t, W_year) \/ UnitIn(t, W_month))
           /\ result # None =>
                  /\ result.k = "str"
                  /\ ~Contains(result.s, W_loan_term)
                  /\ IF UnitIn(t, W_year) THEN result.s = Strip(year.s)
                     ELSE UnitIn(t, W_month) /\ result.s = Strip(month.s)

\* the text is "loan term: 30 year fixed" and the loan term is "30 year
\* fixed", without the label
C14_Witness ==
    /\ pc = "loan_terms"
    /\ HasText(response)
    /\ LowerTextOf(response) = Lower(T_Loan_Term \o T_30_year_fixed)
    /\ LoanTermIn(LowerTextOf(response))
    /\ result = Str(Lower(T_30_year_fixed))

-----------------------------------------------------------------------------
(* C15 *)

\* the line item has no total: the key is missing or holds None
NoTotal(item) == Get(item, "total", None) = None

\* the first line item that holds one of the words has no total
FirstMatchHasNoTotal(r, words) ==
    \E i \in 1..Len(LineItemsOf(r).v) :
        FirstItemWith(r, words, i) /\ NoTotal(LineItemsOf(r).v[i])

\* C15: when the first line item whose description matches the loan-amount
\* words has no total the loan amount is absent, whatever a custom field
\* named "loan amount" or a later line item holds; when the first line item
\* that matches the balance words has no total the outstanding balance is
\* absent, whatever the document total or a later line item holds.  This
\* holds of the extractors and of the record _extract_mortgage_fields
\* assembles.
C15_AbsentTotalShadows ==
    /\ (pc = "loan_amount" /\ HasLineItems(response)
            /\ FirstMatchHasNoTotal(response, LoanAmountWords))
           => result = None
    /\ (pc = "outstanding_balance" /\ HasLineItems(response)
            /\ FirstMatchHasNoTotal(response, BalanceWords))
           => result = None
    /\ (pc = "normalize" /\ HasLineItems(response) /\ result.k = "dict") =>
           /\ FirstMatchHasNoTotal(response, LoanAmountWords) =>
                  result.parsed_fields.loan_amount = None
           /\ FirstMatchHasNoTotal(response, BalanceWords) =>
                  result.parsed_fields.outstanding_balance = None

\* a line item named "Loan Amount" and one named "remaining balance" have no
\* total, a custom field named "Loan Amount" holds a value and the document
\* total is 287450.23: the record has neither a loan amount nor a balance
C15_Witness ==
    /\ pc = "normalize"
    /\ HasLineItems(response)
    /\ FirstMatchHasNoTotal(response, LoanAmountWords)
    /\ FirstMatchHasNoTotal(response, BalanceWords)
    /\ LoanAmountFromFields(response) = Str(S_350_000)
    /\ BalanceFromTotal(response) = N_287450_23
    /\ result.k = "dict"
    /\ result.parsed_fields.loan_amount = None
    /\ result.parsed_fields.outstanding_balance = None
    /\ result.parsed_fields.payment_amount = N_287450_23

=============================================================================
